---- MODULE Spec2Model ----
(***************************************************************************)
(* ready_redis: the process-wide registry ReadyRedis._instances, the       *)
(* construction of a ReadyRedis handle (docker-compose path and Google     *)
(* Colab path), cleanup and its four triggers (explicit call, with-block   *)
(* exit, atexit hook, __del__), and shutdown_all.                          *)
(*                                                                         *)
(* The Python heap is `objs`; the world outside the interpreter is `files` *)
(* (the temporary .env file of each handle), `backend` (the container or   *)
(* daemon each handle started) and `log` (the external calls made for each *)
(* handle, in order).  Every handle talks to its own DockerCompose object, *)
(* so the model keeps one backend per handle.                              *)
(***************************************************************************)
EXTENDS Integers, Sequences, FiniteSets, TLC

\* Bounds of the model.
MaxHandles == 2        \* ReadyRedis objects constructed in one run
MaxDepth == 1          \* nesting depth of with-blocks
MaxFaults == 1         \* unexpected OSErrors injected into os.unlink (SpecFault)
MaxThreads == 2        \* threads that call get at the same time (SpecThreads)

None == "None"

-----------------------------------------------------------------------------
(* Arguments of ReadyRedis.get: the nine-tuple of lines 103-113, in the    *)
(* order name, redis_container_name, host, port, db, password, protocol,   *)
(* redis_version, redis_args.                                              *)

BaseArgs ==
    <<"ready-redis", "my-redis", "localhost", 6379, 0, None, 3, "latest",
      "--save '' --appendonly no">>

\* redis_container_name left unset, and an old version asked for.
NoNameArgs == [BaseArgs EXCEPT ![2] = None, ![8] = "6.2.6-v9"]

\* One variant of BaseArgs per field, each differing from it in that field only.
VariantArgs ==
    { [BaseArgs EXCEPT ![1] = "bsb-playground"],
      [BaseArgs EXCEPT ![2] = "different-container"],
      [BaseArgs EXCEPT ![3] = "127.0.0.1"],
      [BaseArgs EXCEPT ![4] = 6380],
      [BaseArgs EXCEPT ![5] = 1],
      [BaseArgs EXCEPT ![6] = "secret"],
      [BaseArgs EXCEPT ![7] = 2],
      [BaseArgs EXCEPT ![8] = "6.2.6-v9"],
      [BaseArgs EXCEPT ![9] = "--maxmemory 100mb"] }

\* A generated name that is the same at every call.
UlidNameFixed(n) == "redis-stack-" \o "01J" \o ToString(0)

\* str(ULID()): a name no earlier call produced; n counts the ULIDs drawn so far.
UlidName(n) == "redis-stack-" \o "01J" \o ToString(n)

\* Lines 100-101: an unset redis_container_name gets a fresh name.
ResolveName(args, n) ==
    IF args[2] = None THEN [args EXCEPT ![2] = UlidName(n)] ELSE args

\* ConfigOf with db left out of the key.
ConfigOfNoDb(a) == <<a[1], a[2], a[3], a[4], 0, a[6], a[7], a[8], a[9]>>

\* Lines 103-113: the registry key built from the nine arguments.
ConfigOf(a) == <<a[1], a[2], a[3], a[4], a[5], a[6], a[7], a[8], a[9]>>

-----------------------------------------------------------------------------
(* The temporary file object: text written at the current position         *)
(* replaces what was there; truncate() cuts the file at the position.      *)

FWrite(f, data) ==
    [content |-> SubSeq(f.content, 1, f.pos) \o data
                   \o SubSeq(f.content, f.pos + Len(data) + 1, Len(f.content)),
     pos |-> f.pos + Len(data)]

FSeek(f, p) == [f EXCEPT !.pos = p]

FTruncate(f) == [f EXCEPT !.content = SubSeq(f.content, 1, f.pos)]

\* Lines 198-202: the five lines written before the first start.
WriteEnv(f, name, container, version, port, args) ==
    LET f1 == FWrite(f, "PROJECT_NAME=" \o name \o "\n")
        f2 == FWrite(f1, "REDIS_CONTAINER_NAME=" \o container \o "\n")
        f3 == FWrite(f2, "REDIS_VERSION=" \o version \o "\n")
        f4 == FWrite(f3, "REDIS_PORT=" \o ToString(port) \o "\n")
    IN  FWrite(f4, "REDIS_ARGS=" \o args \o "\n")

\* Lines 219-221: the rewrite on the fallback path.
RewriteEnv(f) == FTruncate(FWrite(FSeek(f, 0), "REDIS_VERSION=latest\n"))

-----------------------------------------------------------------------------
(* One handle together with what it owns outside the interpreter:          *)
(*   obj   the ReadyRedis object (lines 140-152 name its fields),          *)
(*   file  the .env file on disk,                                          *)
(*   be    the container (compose path) or daemon (Colab path),            *)
(*   log   the external calls made for the handle, oldest first.           *)

Ev(e, a) == [ev |-> e, arg |-> a]

\* The fields that start as None are records whose `set` says whether the
\* field holds an object.
NoEnvFile == [set |-> FALSE, pos |-> 0, closed |-> FALSE]
NoColabRedis == [set |-> FALSE, port |-> 0, redis_args |-> "", process |-> None]
NoClient ==
    [set |-> FALSE, host |-> "", port |-> 0, db |-> 0, password |-> None,
     protocol |-> 0]

\* Lines 140-152: the fields set before anything is started.  `built` is not a
\* field of the class: it records that __init__ returned.
NewObj(cfg) ==
    [name |-> cfg[1], redis_container_name |-> cfg[2], host |-> cfg[3],
     port |-> cfg[4], db |-> cfg[5], password |-> cfg[6], protocol |-> cfg[7],
     redis_version |-> cfg[8], redis_args |-> cfg[9],
     compose |-> FALSE, env_file |-> NoEnvFile, cleaned_up |-> FALSE,
     colab_redis |-> NoColabRedis, client |-> NoClient, built |-> FALSE]

NoFile == [exists |-> FALSE, content |-> "", removed_by |-> None]

NewBundle(cfg) ==
    [obj |-> NewObj(cfg), file |-> NoFile, be |-> "absent", log |-> <<>>,
     raised |-> FALSE]

\* What an external call may do.
StartOutcomes == {"ok", "manifest unknown", "CalledProcessError", "Exception"}
RetryOutcomes == {"ok", "manifest unknown", "CalledProcessError"}
ColabOutcomes == {"ok", "download", "chmod", "run", "sleep"}
StopOutcomes == {"ok", "raise"}

\* Lines 32-35, 37-48, 50-76, 168-174: ColabRedis is built with process = None
\* and start() downloads the image and runs three shell commands; the second
\* one launches the daemon.  The first failing step raises.
StartColabRedis(b, out) ==
    LET cr == [set |-> TRUE, port |-> b.obj.port,
               redis_args |-> b.obj.redis_args, process |-> None]
        launched == out \in {"ok", "sleep"}
    IN  [b EXCEPT !.obj.colab_redis = cr,
                  !.be = IF launched THEN "running" ELSE "absent",
                  !.log = @ \o <<Ev("colab_start", out)>>,
                  !.raised = (out # "ok")]

\* DockerCompose.start() reading the .env file as it is on disk.
ComposeStart(b, out) ==
    [b EXCEPT !.be = IF out = "ok" THEN "running" ELSE @,
              !.log = @ \o <<Ev("env", b.file.content), Ev("start", out)>>]

\* Fallback that retries after any failure of the first start.
FallbackAnyError(b, f, first, second) ==
    LET f2 == RewriteEnv(f)
        b2 == [b EXCEPT !.obj.redis_version = "latest",
                        !.obj.env_file.pos = f2.pos,
                        !.file.content = f2.content]
        b3 == ComposeStart(b2, second)
    IN  [b3 EXCEPT !.raised = (second # "ok")]

\* Lines 214-225: what the handler of the first start's failure does.
Fallback(b, f, first, second) ==
    IF first = "manifest unknown"
    THEN LET f2 == RewriteEnv(f)
             b2 == [b EXCEPT !.obj.redis_version = "latest",
                             !.obj.env_file.pos = f2.pos,
                             !.file.content = f2.content]
             b3 == ComposeStart(b2, second)
         IN  [b3 EXCEPT !.raised = (second # "ok")]
    ELSE [b EXCEPT !.raised = TRUE]

\* Lines 176-225.  template: docker-compose.yml is found.
StartRedisContainer(b, template, first, second) ==
    IF ~template
    THEN [b EXCEPT !.raised = TRUE]
    ELSE LET o == b.obj
             f == WriteEnv([content |-> "", pos |-> 0], o.name,
                           o.redis_container_name, o.redis_version, o.port,
                           o.redis_args)
             b1 == [b EXCEPT !.obj.env_file =
                                 [set |-> TRUE, pos |-> f.pos, closed |-> FALSE],
                             !.obj.compose = TRUE,
                             !.file = [exists |-> TRUE, content |-> f.content,
                                       removed_by |-> None]]
             b2 == ComposeStart(b1, first)
         IN  IF first = "ok" THEN b2 ELSE Fallback(b2, f, first, second)

\* Lines 159-165: the client.
NewClient(o) ==
    [set |-> TRUE, host |-> o.host, port |-> o.port, db |-> o.db,
     password |-> o.password, protocol |-> o.protocol]

\* Lines 128-166: __init__.  A raise leaves the object half built: no client.
Construct(cfg, is_colab, template, first, second, colab_out) ==
    LET b0 == NewBundle(cfg)
        b1 == IF is_colab THEN StartColabRedis(b0, colab_out)
              ELSE StartRedisContainer(b0, template, first, second)
    IN  IF b1.raised THEN b1
        ELSE [b1 EXCEPT !.obj.client = NewClient(b1.obj), !.obj.built = TRUE]

-----------------------------------------------------------------------------
(* Cleanup.                                                                *)

\* What os.unlink may do: remove the file, or find that something outside the
\* program has removed it already; with may_fail it may also raise an OSError
\* that is not FileNotFoundError.
UnlinkOutcomes(may_fail) ==
    {"ok", "FileNotFoundError"} \cup (IF may_fail THEN {"OSError"} ELSE {})

\* Lines 78-81: ColabRedis.stop().
ColabStop(b) ==
    IF b.obj.colab_redis.process # None
    THEN [b EXCEPT !.be = "stopped", !.log = @ \o <<Ev("terminate", "ok")>>]
    ELSE b

\* ComposeStop with no handler around the stop: its exception goes on.
ComposeStopUncaught(b, stop_out) ==
    [b EXCEPT !.be = IF stop_out = "ok" /\ @ = "running" THEN "stopped" ELSE @,
              !.log = @ \o <<Ev("stop", stop_out)>>,
              !.raised = (stop_out # "ok")]

\* Lines 236-239: DockerCompose.stop() inside try/except Exception.
ComposeStop(b, stop_out) ==
    [b EXCEPT !.be = IF stop_out = "ok" /\ @ = "running" THEN "stopped" ELSE @,
              !.log = @ \o <<Ev("stop", stop_out)>>]

\* Lines 231-239.  finalizing: sys.meta_path is None.
StopBackend(b, finalizing, stop_out) ==
    IF b.obj.colab_redis.set THEN ColabStop(b)
    ELSE IF b.obj.compose /\ ~finalizing THEN ComposeStop(b, stop_out)
    ELSE IF b.obj.compose THEN [b EXCEPT !.log = @ \o <<Ev("stop", "skipped")>>]
    ELSE b

\* Lines 241-246: close the file object and unlink its path.
RemoveEnvFile(b, unlink_out) ==
    IF ~b.obj.env_file.set THEN b
    ELSE LET c == [b EXCEPT !.obj.env_file.closed = TRUE]
         IN  IF ~c.file.exists \/ unlink_out = "FileNotFoundError"
             THEN [c EXCEPT !.file.exists = FALSE,
                            !.file.removed_by =
                                IF c.file.exists THEN "external" ELSE @,
                            !.log = @ \o <<Ev("unlink", "FileNotFoundError")>>]
             ELSE IF unlink_out = "ok"
             THEN [c EXCEPT !.file.exists = FALSE,
                            !.file.removed_by = "cleanup",
                            !.log = @ \o <<Ev("unlink", "ok")>>]
             ELSE [c EXCEPT !.log = @ \o <<Ev("unlink", unlink_out)>>,
                            !.raised = TRUE]

\* MarkCleanedUp that forgets the flag.
MarkNothing(b) == b

\* Line 248.
MarkCleanedUp(b) == [b EXCEPT !.obj.cleaned_up = TRUE]

\* cleanup() without the guard of lines 228-229.
CleanupUnguarded(b, finalizing, stop_out, unlink_out) ==
    LET b0 == [b EXCEPT !.raised = FALSE]
        b1 == [b0 EXCEPT !.log = @ \o <<Ev("cleanup", "")>>]
        b2 == StopBackend(b1, finalizing, stop_out)
        b3 == RemoveEnvFile(b2, unlink_out)
    IN  IF b3.raised THEN b3 ELSE MarkCleanedUp(b3)

\* cleanup() that removes the file before it stops the backend.
CleanupFileFirst(b, finalizing, stop_out, unlink_out) ==
    LET b0 == [b EXCEPT !.raised = FALSE]
    IN  IF b0.obj.cleaned_up THEN b0
        ELSE LET b1 == [b0 EXCEPT !.log = @ \o <<Ev("cleanup", "")>>]
                 b2 == RemoveEnvFile(b1, unlink_out)
                 b3 == StopBackend(b2, finalizing, stop_out)
             IN  IF b3.raised THEN b3 ELSE MarkCleanedUp(b3)

\* Lines 227-248: cleanup().  The result's `raised` says the call raised.
CleanupBundle(b, finalizing, stop_out, unlink_out) ==
    LET b0 == [b EXCEPT !.raised = FALSE]
    IN  IF b0.obj.cleaned_up THEN b0
        ELSE LET b1 == [b0 EXCEPT !.log = @ \o <<Ev("cleanup", "")>>]
                 b2 == StopBackend(b1, finalizing, stop_out)
                 b3 == RemoveEnvFile(b2, unlink_out)
             IN  IF b3.raised THEN b3 ELSE MarkCleanedUp(b3)

-----------------------------------------------------------------------------
(* State.                                                                  *)

VARIABLES
    colab,      \* is_colab_environment() of this process
    faults,     \* unexpected OSErrors os.unlink may still raise
    requests,   \* the argument tuples this run passes to get
    instances,  \* ReadyRedis._instances: <<config, handle>> in insertion order
    objs,       \* the ReadyRedis objects, by handle
    files,      \* the .env file of each handle
    backend,    \* the container or daemon of each handle
    log,        \* the external calls made for each handle
    exitfuncs,  \* the handles whose cleanup atexit holds, in registration order
    phase,      \* "run", then "atexit", then "finalize" (sys.meta_path is None)
    scopes,     \* the handles of the with-blocks entered, innermost last
    dead,       \* the handles whose __del__ has run
    ulids,      \* ULIDs drawn
    last,       \* the last call: what it was given and what it gave
    gets,       \* <<arguments, handle>> of the gets since the last shutdown_all
    born,       \* <<arguments, handle>> constructed since the last shutdown_all
    retired,    \* <<arguments, handle>> a completed shutdown_all removed
    threads     \* where each thread stands in its call of get, and its locals

vars ==
    <<colab, faults, requests, instances, objs, files, backend, log, exitfuncs,
      phase, scopes, dead, ulids, last, gets, born, retired, threads>>

Handles == 1..Len(objs)

Threads == 1..MaxThreads

\* A thread that has not called get: `pc` is the line of get it stands at,
\* `h` the object its own cls(...) gave, `ret` the handle get returned to it.
NoThread ==
    [pc |-> "idle", args |-> BaseArgs, missed |-> FALSE, h |-> 0, ret |-> 0,
     raised |-> FALSE]

Bundle(h) ==
    [obj |-> objs[h], file |-> files[h], be |-> backend[h], log |-> log[h],
     raised |-> FALSE]

World == [objs |-> objs, files |-> files, backend |-> backend, log |-> log]

BundleIn(w, h) ==
    [obj |-> w.objs[h], file |-> w.files[h], be |-> w.backend[h],
     log |-> w.log[h], raised |-> FALSE]

Put(w, h, b) ==
    [objs |-> [w.objs EXCEPT ![h] = b.obj],
     files |-> [w.files EXCEPT ![h] = b.file],
     backend |-> [w.backend EXCEPT ![h] = b.be],
     log |-> [w.log EXCEPT ![h] = b.log]]

SetWorld(w) ==
    /\ objs' = w.objs
    /\ files' = w.files
    /\ backend' = w.backend
    /\ log' = w.log

\* The handle stored under a key, 0 when there is none (line 114).
Lookup(reg, cfg) ==
    IF \E i \in 1..Len(reg) : reg[i][1] = cfg
    THEN reg[CHOOSE i \in 1..Len(reg) : reg[i][1] = cfg][2]
    ELSE 0

RegisteredHandles(reg) == {reg[i][2] : i \in 1..Len(reg)}

NoCall ==
    [op |-> "none", h |-> 0, raised |-> FALSE, args |-> BaseArgs, hit |-> FALSE,
     first |-> FALSE, prior |-> FALSE, exc |-> FALSE, value |-> NoClient,
     registered |-> {}, attempted |-> {}]

Init ==
    /\ colab \in BOOLEAN
    /\ faults = 0
    /\ requests = {BaseArgs, NoNameArgs}
    /\ instances = <<>>
    /\ objs = <<>>
    /\ files = <<>>
    /\ backend = <<>>
    /\ log = <<>>
    /\ exitfuncs = <<>>
    /\ phase = "run"
    /\ scopes = <<>>
    /\ dead = {}
    /\ ulids = 0
    /\ last = NoCall
    /\ gets = {}
    /\ born = {}
    /\ retired = {}
    /\ threads = [t \in Threads |-> NoThread]

\* The same program where os.unlink may raise MaxFaults unexpected OSErrors.
InitFault ==
    /\ colab \in BOOLEAN
    /\ faults = MaxFaults
    /\ requests = {BaseArgs, NoNameArgs}
    /\ instances = <<>>
    /\ objs = <<>>
    /\ files = <<>>
    /\ backend = <<>>
    /\ log = <<>>
    /\ exitfuncs = <<>>
    /\ phase = "run"
    /\ scopes = <<>>
    /\ dead = {}
    /\ ulids = 0
    /\ last = NoCall
    /\ gets = {}
    /\ born = {}
    /\ retired = {}
    /\ threads = [t \in Threads |-> NoThread]

\* A run that asks for BaseArgs and for one variant of it.
InitKeys ==
    /\ colab \in BOOLEAN
    /\ faults = 0
    /\ \E v \in VariantArgs : requests = {BaseArgs, v}
    /\ instances = <<>>
    /\ objs = <<>>
    /\ files = <<>>
    /\ backend = <<>>
    /\ log = <<>>
    /\ exitfuncs = <<>>
    /\ phase = "run"
    /\ scopes = <<>>
    /\ dead = {}
    /\ ulids = 0
    /\ last = NoCall
    /\ gets = {}
    /\ born = {}
    /\ retired = {}
    /\ threads = [t \in Threads |-> NoThread]

-----------------------------------------------------------------------------
(* ReadyRedis.get, lines 87-126, with __init__ on a miss.                  *)

\* A hit that provisions the stored handle again when it is cleaned up.
GetHitRestart(a, h) ==
    /\ last' = [NoCall EXCEPT !.op = "get", !.h = h, !.args = a, !.hit = TRUE,
                              !.first = (a \notin {g[1] : g \in gets})]
    /\ gets' = gets \cup {<<a, h>>}
    /\ objs' = [objs EXCEPT ![h].cleaned_up = FALSE]
    /\ backend' = [backend EXCEPT ![h] = "running"]
    /\ UNCHANGED <<colab, faults, requests, instances, files, log, exitfuncs,
                   phase, scopes, dead, born, retired>>

\* Lines 114-126 on a hit.
GetHit(a, h) ==
    /\ last' = [NoCall EXCEPT !.op = "get", !.h = h, !.args = a, !.hit = TRUE,
                              !.first = (a \notin {g[1] : g \in gets})]
    /\ gets' = gets \cup {<<a, h>>}
    /\ UNCHANGED <<colab, faults, requests, instances, objs, files, backend,
                   log, exitfuncs, phase, scopes, dead, born, retired>>

\* An __init__ that registers nothing at exit.
AtExitRegisterNothing(funcs, h) == funcs

\* Line 166: atexit.register(self.cleanup).
AtExitRegister(funcs, h) == Append(funcs, h)

\* A miss that stores the object also when __init__ raised.
GetMissStoreBroken(a, cfg, b) ==
    LET h == Len(objs) + 1
    IN  /\ Len(objs) < MaxHandles
        /\ objs' = Append(objs, b.obj)
        /\ files' = Append(files, b.file)
        /\ backend' = Append(backend, b.be)
        /\ log' = Append(log, b.log)
        /\ last' = [NoCall EXCEPT !.op = "get", !.h = h, !.args = a,
                                  !.raised = b.raised,
                                  !.first = (a \notin {g[1] : g \in gets})]
        /\ instances' = Append(instances, <<cfg, h>>)
        /\ exitfuncs' = IF b.raised THEN exitfuncs
                        ELSE AtExitRegister(exitfuncs, h)
        /\ gets' = gets \cup {<<a, h>>}
        /\ born' = born \cup {<<a, h>>}
        /\ UNCHANGED <<colab, faults, requests, phase, scopes, dead, retired>>

\* Lines 114-126 on a miss: construct, and store and register at exit (line 166)
\* only when __init__ returned.
GetMiss(a, cfg, b) ==
    LET h == Len(objs) + 1
    IN  /\ Len(objs) < MaxHandles
        /\ objs' = Append(objs, b.obj)
        /\ files' = Append(files, b.file)
        /\ backend' = Append(backend, b.be)
        /\ log' = Append(log, b.log)
        /\ IF b.raised
           THEN /\ last' = [NoCall EXCEPT !.op = "get", !.h = h, !.args = a,
                                          !.raised = TRUE]
                /\ UNCHANGED <<instances, exitfuncs, gets, born>>
           ELSE /\ last' = [NoCall EXCEPT !.op = "get", !.h = h, !.args = a,
                                          !.first = (a \notin {g[1] : g \in gets})]
                /\ instances' = Append(instances, <<cfg, h>>)
                /\ exitfuncs' = AtExitRegister(exitfuncs, h)
                /\ gets' = gets \cup {<<a, h>>}
                /\ born' = born \cup {<<a, h>>}
        /\ UNCHANGED <<colab, faults, requests, phase, scopes, dead, retired>>

Get(args, template, first, second, colab_out) ==
    /\ phase = "run"
    /\ args \in requests
    /\ colab => template /\ first = "ok"
    /\ ~colab => colab_out = "ok"
    /\ first # "manifest unknown" => second = "ok"
    /\ ulids' = IF args[2] = None THEN ulids + 1 ELSE ulids
    /\ UNCHANGED threads
    /\ LET a == ResolveName(args, ulids + 1)
           cfg == ConfigOf(a)
           h == Lookup(instances, cfg)
       IN  IF h # 0 THEN GetHit(a, h)
           ELSE GetMiss(a, cfg,
                        Construct(a, colab, template, first, second, colab_out))

-----------------------------------------------------------------------------
(* The cleanup triggers.                                                   *)

Finalizing == phase = "finalize"

\* The outcomes a cleanup of handle h can meet: where a call is not made, its
\* outcome is not drawn.
StopDraws(h) ==
    IF ~objs[h].cleaned_up /\ ~objs[h].colab_redis.set /\ objs[h].compose
       /\ ~Finalizing
    THEN StopOutcomes ELSE {"ok"}

UnlinkDraws(h) ==
    IF ~objs[h].cleaned_up /\ objs[h].env_file.set /\ files[h].exists
    THEN UnlinkOutcomes(faults > 0) ELSE {"ok"}

\* One cleanup call on handle h, as every trigger makes it.
RunCleanup(op, h, b) ==
    /\ SetWorld(Put(World, h, b))
    /\ faults' = IF b.raised THEN faults - 1 ELSE faults
    /\ last' = [NoCall EXCEPT !.op = op, !.h = h, !.raised = b.raised,
                              !.prior = objs[h].cleaned_up]

\* A cleanup that takes the handle out of the registry.
CleanupEvicts(h, stop_out, unlink_out) ==
    /\ phase = "run"
    /\ objs[h].built
    /\ RunCleanup("cleanup", h,
                  CleanupBundle(Bundle(h), Finalizing, stop_out, unlink_out))
    /\ instances' = LET Others(e) == e[2] # h IN SelectSeq(instances, Others)
    /\ UNCHANGED <<colab, requests, exitfuncs, phase, scopes, dead, ulids, gets,
                   born, retired,
                   threads>>

\* An explicit handle.cleanup() by the caller that holds the handle.
Cleanup(h, stop_out, unlink_out) ==
    /\ phase = "run"
    /\ objs[h].built
    /\ RunCleanup("cleanup", h,
                  CleanupBundle(Bundle(h), Finalizing, stop_out, unlink_out))
    /\ UNCHANGED <<colab, requests, instances, exitfuncs, phase, scopes, dead,
                   ulids, gets, born, retired,
                   threads>>

\* Lines 253-254: __enter__ gives the client.
Enter(h) ==
    /\ phase = "run"
    /\ objs[h].built
    /\ Len(scopes) < MaxDepth
    /\ scopes' = Append(scopes, h)
    /\ last' = [NoCall EXCEPT !.op = "enter", !.h = h, !.value = objs[h].client]
    /\ UNCHANGED <<colab, faults, requests, instances, objs, files, backend,
                   log, exitfuncs, phase, dead, ulids, gets, born, retired,
                   threads>>

\* __exit__ that cleans up only when the body did not raise.
ExitOnSuccessOnly(b, exc, finalizing, stop_out, unlink_out) ==
    IF exc THEN b ELSE CleanupBundle(b, finalizing, stop_out, unlink_out)

\* Lines 256-257: __exit__(exc_type, exc_val, exc_tb).  exc: the body raised.
ExitBundle(b, exc, finalizing, stop_out, unlink_out) ==
    CleanupBundle(b, finalizing, stop_out, unlink_out)

\* Leaving the innermost with-block.  __exit__ returns None, so an exception
\* of the body goes on to the caller after the cleanup.
Exit(h, exc, stop_out, unlink_out) ==
    /\ phase = "run"
    /\ scopes # <<>>
    /\ h = scopes[Len(scopes)]
    /\ LET b == ExitBundle(Bundle(h), exc, Finalizing, stop_out, unlink_out)
       IN  /\ SetWorld(Put(World, h, b))
           /\ faults' = IF b.raised THEN faults - 1 ELSE faults
           /\ last' = [NoCall EXCEPT !.op = "exit", !.h = h,
                                     !.raised = b.raised, !.exc = exc,
                                     !.prior = objs[h].cleaned_up]
    /\ scopes' = SubSeq(scopes, 1, Len(scopes) - 1)
    /\ UNCHANGED <<colab, requests, instances, exitfuncs, phase, dead, ulids,
                   gets, born, retired,
                   threads>>

\* A loop of shutdown_all that cleans up nothing.
CleanupNone(w, hs, i, stop_out, unlink_out) ==
    [w |-> w, raised |-> FALSE, attempted |-> {}]

\* Lines 261-262: the loop of shutdown_all over the handles hs from the i-th
\* on; a cleanup that raises ends it.  The result names the handles whose
\* cleanup was called.
RECURSIVE CleanupEach(_, _, _, _, _)
CleanupEach(w, hs, i, stop_out, unlink_out) ==
    IF i > Len(hs)
    THEN [w |-> w, raised |-> FALSE, attempted |-> {hs[j] : j \in 1..Len(hs)}]
    ELSE LET h == hs[i]
             b == CleanupBundle(BundleIn(w, h), FALSE, stop_out[h], unlink_out[h])
         IN  IF b.raised
             THEN [w |-> Put(w, h, b), raised |-> TRUE,
                   attempted |-> {hs[j] : j \in 1..i}]
             ELSE CleanupEach(Put(w, h, b), hs, i + 1, stop_out, unlink_out)

\* shutdown_all that leaves the mapping as it is.
KeepInstances(reg) == reg

\* Line 263.
ClearInstances(reg) == <<>>

\* Lines 259-263: shutdown_all.
ShutdownAll(stop_out, unlink_out) ==
    /\ phase = "run"
    /\ \A h \in Handles :
           \/ h \in RegisteredHandles(instances)
              /\ stop_out[h] \in StopDraws(h) /\ unlink_out[h] \in UnlinkDraws(h)
           \/ h \notin RegisteredHandles(instances)
              /\ stop_out[h] = "ok" /\ unlink_out[h] = "ok"
    /\ LET hs == [i \in 1..Len(instances) |-> instances[i][2]]
           r == CleanupEach(World, hs, 1, stop_out, unlink_out)
       IN  /\ SetWorld(r.w)
           /\ faults' = IF r.raised THEN faults - 1 ELSE faults
           /\ instances' = IF r.raised THEN instances ELSE ClearInstances(instances)
           /\ retired' = IF r.raised THEN retired
                         ELSE retired \cup {<<instances[i][1], instances[i][2]>> :
                                              i \in 1..Len(instances)}
           /\ last' = [NoCall EXCEPT !.op = "shutdown_all", !.raised = r.raised,
                                     !.registered = RegisteredHandles(instances),
                                     !.attempted = r.attempted]
    /\ gets' = {}
    /\ born' = {}
    /\ UNCHANGED <<colab, requests, exitfuncs, phase, scopes, dead, ulids,
                   threads>>

\* The interpreter starts to exit: no with-block is open any more.
ProcessExit ==
    /\ phase = "run"
    /\ scopes = <<>>
    /\ phase' = "atexit"
    /\ last' = NoCall
    /\ UNCHANGED <<colab, faults, requests, instances, objs, files, backend,
                   log, exitfuncs, scopes, dead, ulids, gets, born, retired,
                   threads>>

\* Line 166: atexit calls the registered cleanups, last registered first, and
\* goes on after one that raises.
RunExitFunc(h, stop_out, unlink_out) ==
    /\ phase = "atexit"
    /\ exitfuncs # <<>>
    /\ h = exitfuncs[Len(exitfuncs)]
    /\ LET b == CleanupBundle(Bundle(h), Finalizing, stop_out, unlink_out)
       IN  /\ SetWorld(Put(World, h, b))
           /\ faults' = IF b.raised THEN faults - 1 ELSE faults
           /\ last' = [NoCall EXCEPT !.op = "atexit", !.h = h,
                                     !.prior = objs[h].cleaned_up]
    /\ exitfuncs' = SubSeq(exitfuncs, 1, Len(exitfuncs) - 1)
    /\ UNCHANGED <<colab, requests, instances, phase, scopes, dead, ulids, gets,
                   born, retired,
                   threads>>

\* The exit hooks have run: the interpreter tears its modules down, and
\* sys.meta_path is None from here on.
Finalize ==
    /\ phase = "atexit"
    /\ exitfuncs = <<>>
    /\ phase' = "finalize"
    /\ last' = NoCall
    /\ UNCHANGED <<colab, faults, requests, instances, objs, files, backend,
                   log, exitfuncs, scopes, dead, ulids, gets, born, retired,
                   threads>>

\* A destructor whose cleanup reads the client first, which a half-built
\* object does not have.
DelNeedsClient(b, finalizing, stop_out, unlink_out) ==
    IF ~b.obj.client.set THEN [b EXCEPT !.raised = TRUE]
    ELSE CleanupBundle(b, finalizing, stop_out, unlink_out)

\* Lines 250-251: __del__.
DelBundle(b, finalizing, stop_out, unlink_out) ==
    CleanupBundle(b, finalizing, stop_out, unlink_out)

\* The object is collected.  A handle whose __init__ returned is held by
\* atexit until the hooks have run; one whose __init__ raised is held only by
\* the exception, and goes when the caller drops it.  What __del__ raises is
\* printed and dropped.
Del(h, stop_out, unlink_out) ==
    /\ h \notin dead
    /\ Finalizing \/ (phase = "run" /\ ~objs[h].built)
    /\ LET b == DelBundle(Bundle(h), Finalizing, stop_out, unlink_out)
       IN  /\ SetWorld(Put(World, h, b))
           /\ faults' = IF b.raised THEN faults - 1 ELSE faults
           /\ last' = [NoCall EXCEPT !.op = "del", !.h = h,
                                     !.prior = objs[h].cleaned_up]
    /\ dead' = dead \cup {h}
    /\ UNCHANGED <<colab, requests, instances, exitfuncs, phase, scopes, ulids,
                   gets, born, retired,
                   threads>>

-----------------------------------------------------------------------------

Next ==
    \/ \E args \in requests, template \in BOOLEAN, first \in StartOutcomes,
          second \in RetryOutcomes, colab_out \in ColabOutcomes :
           Get(args, template, first, second, colab_out)
    \/ \E h \in Handles : \E so \in StopDraws(h), uo \in UnlinkDraws(h) :
           Cleanup(h, so, uo)
    \/ \E h \in Handles : Enter(h)
    \/ \E exc \in BOOLEAN, h \in Handles :
           \E so \in StopDraws(h), uo \in UnlinkDraws(h) : Exit(h, exc, so, uo)
    \/ \E so \in [Handles -> StopOutcomes], uo \in [Handles -> UnlinkOutcomes(faults > 0)] :
           ShutdownAll(so, uo)
    \/ ProcessExit
    \/ \E h \in Handles : \E so \in StopDraws(h), uo \in UnlinkDraws(h) :
           RunExitFunc(h, so, uo)
    \/ Finalize
    \/ \E h \in Handles : \E so \in StopDraws(h), uo \in UnlinkDraws(h) :
           Del(h, so, uo)

Spec == Init /\ [][Next]_vars

\* The registry alone: get, cleanup and shutdown_all.
NextRegistry ==
    \/ \E args \in requests, template \in BOOLEAN, first \in StartOutcomes,
          second \in RetryOutcomes, colab_out \in ColabOutcomes :
           Get(args, template, first, second, colab_out)
    \/ \E h \in Handles : \E so \in StopDraws(h), uo \in UnlinkDraws(h) :
           Cleanup(h, so, uo)
    \/ \E so \in [Handles -> StopOutcomes], uo \in [Handles -> UnlinkOutcomes(faults > 0)] :
           ShutdownAll(so, uo)

SpecKeys == InitKeys /\ [][NextRegistry]_vars

\* The registry where os.unlink may raise an unexpected OSError.
SpecFault == InitFault /\ [][NextRegistry]_vars

-----------------------------------------------------------------------------
(* get called by several threads with one configuration.  Nothing in get   *)
(* holds a lock, and __init__ blocks in subprocess calls, so the           *)
(* interpreter may switch threads between the test of line 114, the call   *)
(* cls(...) of lines 115-125, the store into the dict and the read of line *)
(* 126.                                                                    *)

\* Every thread asks for BaseArgs.
InitThreads ==
    /\ colab \in BOOLEAN
    /\ faults = 0
    /\ requests = {BaseArgs}
    /\ instances = <<>>
    /\ objs = <<>>
    /\ files = <<>>
    /\ backend = <<>>
    /\ log = <<>>
    /\ exitfuncs = <<>>
    /\ phase = "run"
    /\ scopes = <<>>
    /\ dead = {}
    /\ ulids = 0
    /\ last = NoCall
    /\ gets = {}
    /\ born = {}
    /\ retired = {}
    /\ threads = [t \in Threads |-> NoThread]

\* Lines 100-114: the name, the key, and the test `config not in _instances`.
ThreadCheck(t, args) ==
    /\ phase = "run"
    /\ threads[t].pc = "idle"
    /\ args \in requests
    /\ ulids' = IF args[2] = None THEN ulids + 1 ELSE ulids
    /\ LET a == ResolveName(args, ulids + 1)
           miss == Lookup(instances, ConfigOf(a)) = 0
       IN  threads' = [threads EXCEPT ![t].args = a, ![t].missed = miss,
                                      ![t].pc = IF miss THEN "construct"
                                                ELSE "return"]
    /\ UNCHANGED <<colab, faults, requests, instances, objs, files, backend,
                   log, exitfuncs, phase, scopes, dead, last, gets, born,
                   retired>>

\* Lines 115-125, the right-hand side: cls(...) runs __init__, which registers
\* the object at exit when it returns (line 166).  A raise ends the call.
ThreadConstruct(t, template, first, second, colab_out) ==
    /\ threads[t].pc = "construct"
    /\ Len(objs) < MaxHandles
    /\ colab => template /\ first = "ok"
    /\ ~colab => colab_out = "ok"
    /\ first # "manifest unknown" => second = "ok"
    /\ LET a == threads[t].args
           b == Construct(a, colab, template, first, second, colab_out)
           h == Len(objs) + 1
       IN  /\ objs' = Append(objs, b.obj)
           /\ files' = Append(files, b.file)
           /\ backend' = Append(backend, b.be)
           /\ log' = Append(log, b.log)
           /\ IF b.raised
              THEN /\ threads' = [threads EXCEPT ![t].h = h, ![t].raised = TRUE,
                                                 ![t].pc = "done"]
                   /\ last' = [NoCall EXCEPT !.op = "get", !.h = h, !.args = a,
                                             !.raised = TRUE]
                   /\ UNCHANGED <<exitfuncs, born>>
              ELSE /\ threads' = [threads EXCEPT ![t].h = h, ![t].pc = "store"]
                   /\ exitfuncs' = AtExitRegister(exitfuncs, h)
                   /\ born' = born \cup {<<a, h>>}
                   /\ UNCHANGED last
    /\ UNCHANGED <<colab, faults, requests, instances, phase, scopes, dead,
                   ulids, gets, retired>>

\* A store that leaves an entry that is there already.
StoreIfAbsent(reg, cfg, h) ==
    IF \E i \in 1..Len(reg) : reg[i][1] = cfg THEN reg
    ELSE Append(reg, <<cfg, h>>)

\* Lines 115-125, the assignment cls._instances[config] = ...: a key that is
\* there already keeps its place and gets the new value.
StoreEntry(reg, cfg, h) ==
    IF \E i \in 1..Len(reg) : reg[i][1] = cfg
    THEN [i \in 1..Len(reg) |-> IF reg[i][1] = cfg THEN <<cfg, h>> ELSE reg[i]]
    ELSE Append(reg, <<cfg, h>>)

ThreadStore(t) ==
    /\ threads[t].pc = "store"
    /\ instances' = StoreEntry(instances, ConfigOf(threads[t].args), threads[t].h)
    /\ threads' = [threads EXCEPT ![t].pc = "return"]
    /\ UNCHANGED <<colab, faults, requests, objs, files, backend, log,
                   exitfuncs, phase, scopes, dead, ulids, last, gets, born,
                   retired>>

\* Line 126: return cls._instances[config], read again from the dict.
ThreadReturn(t) ==
    /\ threads[t].pc = "return"
    /\ LET a == threads[t].args
           h == Lookup(instances, ConfigOf(a))
       IN  /\ threads' = [threads EXCEPT ![t].ret = h, ![t].raised = (h = 0),
                                          ![t].pc = "done"]
           /\ last' = [NoCall EXCEPT !.op = "get", !.h = h, !.args = a,
                                     !.raised = (h = 0),
                                     !.hit = ~threads[t].missed,
                                     !.first = (a \notin {g[1] : g \in gets})]
           /\ gets' = IF h = 0 THEN gets ELSE gets \cup {<<a, h>>}
    /\ UNCHANGED <<colab, faults, requests, instances, objs, files, backend,
                   log, exitfuncs, phase, scopes, dead, ulids, born, retired>>

NextThreads ==
    \/ \E t \in Threads, args \in requests : ThreadCheck(t, args)
    \/ \E t \in Threads, template \in BOOLEAN, first \in StartOutcomes,
          second \in RetryOutcomes, colab_out \in ColabOutcomes :
           ThreadConstruct(t, template, first, second, colab_out)
    \/ \E t \in Threads : ThreadStore(t)
    \/ \E t \in Threads : ThreadReturn(t)

SpecThreads == InitThreads /\ [][NextThreads]_vars

-----------------------------------------------------------------------------
(* What the claims speak of.                                               *)

Triggers == {"cleanup", "exit", "atexit", "del"}

\* The positions of the events e in the log of handle h.
At(h, e) == {i \in 1..Len(log[h]) : log[h][i].ev = e}

\* The outcomes of the orchestration starts of h, in order.
RECURSIVE Pick(_, _)
Pick(l, e) ==
    IF l = <<>> THEN <<>>
    ELSE IF Head(l).ev = e THEN <<Head(l).arg>> \o Pick(Tail(l), e)
    ELSE Pick(Tail(l), e)

Starts(h) == Pick(log[h], "start")

\* The .env file as each start found it.
EnvSeen(h) == Pick(log[h], "env")

\* The stops issued to the orchestration tool for h (a skipped one is none).
StopsIssued(h) == {i \in At(h, "stop") : log[h][i].arg # "skipped"}

Orchestrated(h) == objs[h].built /\ objs[h].compose

\* The five KEY=VALUE lines.
EnvText(name, container, version, port, args) ==
    "PROJECT_NAME=" \o name \o "\n"
      \o "REDIS_CONTAINER_NAME=" \o container \o "\n"
      \o "REDIS_VERSION=" \o version \o "\n"
      \o "REDIS_PORT=" \o ToString(port) \o "\n"
      \o "REDIS_ARGS=" \o args \o "\n"

-----------------------------------------------------------------------------
(* C1: with no shutdown_all in between, two gets with equal arguments give *)
(* the same handle, and the backend is provisioned for them once; two gets *)
(* that differ in a field give different handles.                          *)
C1_SameConfigSameHandle ==
    /\ \A p, q \in gets : (p[1] = q[1]) <=> (p[2] = q[2])
    /\ \A p, q \in born : p[1] = q[1] => p[2] = q[2]

\* A repeated get was answered from the registry after two different
\* configurations had been handed two handles.
C1_Witness ==
    /\ last.op = "get" /\ last.hit
    /\ Cardinality(gets) = 2
    /\ Cardinality(born) = 2

(* C2: once a cleanup of a handle has returned, a further cleanup call     *)
(* (explicit, with-block exit, atexit, __del__) raises nothing and changes *)
(* nothing: the object, its file, its backend and the calls made for it    *)
(* stay as they were.                                                      *)
C2_CleanupIdempotent ==
    [][\A h \in Handles :
         objs[h].cleaned_up =>
           /\ objs'[h] = objs[h]
           /\ files'[h] = files[h]
           /\ backend'[h] = backend[h]
           /\ log'[h] = log[h]
           /\ (last'.op \in Triggers /\ last'.h = h => ~last'.raised)]_vars

\* A cleanup was called on a handle that was cleaned up already.
C2_Witness ==
    /\ last.op \in Triggers
    /\ last.prior
    /\ Orchestrated(last.h)

(* C3: for a handle whose construction succeeded on the orchestration     *)
(* path, the stop is issued at most once; the first cleanup trigger issues *)
(* it, and a handle marked completed has had it issued.                    *)
C3_StopExactlyOnce ==
    \A h \in Handles :
        Orchestrated(h) =>
          /\ Cardinality(StopsIssued(h)) <= 1
          /\ At(h, "cleanup") # {} =>
               LET i == CHOOSE i \in At(h, "cleanup") :
                            \A j \in At(h, "cleanup") : i <= j
               IN  i + 1 \in StopsIssued(h)
          /\ objs[h].cleaned_up => Cardinality(StopsIssued(h)) = 1

\* A second trigger fired on an orchestrated handle, and one stop was issued.
C3_Witness ==
    /\ last.op \in Triggers
    /\ last.prior
    /\ Orchestrated(last.h)
    /\ Cardinality(StopsIssued(last.h)) = 1

(* C4, as claimed: whenever cleanup has deleted a handle's environment     *)
(* file, the handle's backend is not running.                              *)
C4_FileDeletedOnlyWhenStopped ==
    \A h \in Handles :
        files[h].removed_by = "cleanup" => backend[h] # "running"

(* C4, amended: cleanup deletes the environment file only after the same   *)
(* cleanup call has attempted the orchestration stop, or has skipped it    *)
(* because the interpreter is finalizing; when the backend is still        *)
(* running at that point, that stop raised or was skipped.                 *)
C4_FileDeletedAfterStopAttempt ==
    \A h \in Handles :
        /\ \A i \in At(h, "unlink") :
              /\ i >= 3
              /\ log[h][i - 1].ev = "stop"
              /\ log[h][i - 2].ev = "cleanup"
        /\ files[h].removed_by = "cleanup" /\ backend[h] = "running" =>
              \E i \in At(h, "unlink") :
                  log[h][i].arg = "ok" /\ log[h][i - 1].arg \in {"raise", "skipped"}

\* Cleanup deleted the file of a handle whose stop had raised: the container
\* is still running.
C4_Witness ==
    \E h \in Handles :
        /\ Orchestrated(h)
        /\ objs[h].cleaned_up
        /\ files[h].removed_by = "cleanup"
        /\ backend[h] = "running"

(* C5: shutdown_all calls cleanup on every handle of the registry, also    *)
(* after the cleanup of one of them has raised, and clears the registry.   *)
C5_ShutdownAllAttemptsEvery ==
    last.op = "shutdown_all" =>
        /\ last.attempted = last.registered
        /\ instances = <<>>

(* C6: after shutdown_all has returned the registry is empty and every     *)
(* handle that was in it is cleaned up; the next get with a configuration  *)
(* used before constructs and provisions a new handle, which is not one of *)
(* the earlier ones and is not cleaned up.                                 *)
C6_FreshAfterShutdownAll ==
    /\ last.op = "shutdown_all" /\ ~last.raised =>
          /\ instances = <<>>
          /\ \A h \in last.registered : objs[h].cleaned_up
    /\ last.op = "get" /\ ~last.raised /\ last.first
         /\ last.args \in {r[1] : r \in retired} =>
          /\ ~last.hit
          /\ last.h \notin {r[2] : r \in retired}
          /\ ~objs[last.h].cleaned_up
          /\ backend[last.h] = "running"
          /\ Lookup(instances, ConfigOf(last.args)) = last.h

\* A configuration used before shutdown_all was asked for again.
C6_Witness ==
    /\ last.op = "get" /\ ~last.raised /\ last.first
    /\ last.args \in {r[1] : r \in retired}
    /\ \E r \in retired : r[1] = last.args /\ objs[r[2]].cleaned_up

(* C7: a first start that fails with "manifest unknown" sets the version   *)
(* to "latest" and is followed by exactly one more start, whose failure    *)
(* goes to the caller; any other failure of the first start goes to the    *)
(* caller with no retry and the version unchanged.  No construction starts *)
(* the orchestration more than twice.                                      *)
C7_FallbackOnce ==
    \A h \in Handles :
        LET st == Starts(h)
        IN  /\ Len(st) <= 2
            /\ Len(st) = 2 <=> (st # <<>> /\ st[1] = "manifest unknown")
            /\ Len(st) = 2 => objs[h].redis_version = "latest"
            /\ st # <<>> => (objs[h].built <=> st[Len(st)] = "ok")
            /\ last.op = "get" /\ last.h = h /\ ~last.hit =>
                  /\ last.raised <=> ~objs[h].built
                  /\ Len(st) < 2 => objs[h].redis_version = last.args[8]

\* The fallback was taken, its retry failed too, and get raised.
C7_Witness ==
    /\ last.op = "get" /\ last.raised
    /\ Starts(last.h) = <<"manifest unknown", "manifest unknown">>
    /\ last.args[8] = "6.2.6-v9"

(* C8: when the fallback is taken, the environment file the retried start  *)
(* reads holds the five lines with the same project name, instance name,   *)
(* port and args as before and REDIS_VERSION=latest.                       *)
C8_FallbackKeepsFiveLines ==
    \A h \in Handles :
        Len(Starts(h)) = 2 =>
            EnvSeen(h)[2] = EnvText(objs[h].name, objs[h].redis_container_name,
                                    "latest", objs[h].port, objs[h].redis_args)

(* C9: entering the with-block of a handle gives the handle's client, and  *)
(* leaving it, whether the body raised or not, leaves the handle cleaned   *)
(* up.                                                                     *)
C9_ScopeExitCleansUp ==
    /\ last.op = "enter" =>
          /\ last.value = objs[last.h].client
          /\ last.value = NewClient(objs[last.h])
    /\ last.op = "exit" => objs[last.h].cleaned_up

\* A with-block whose body raised was left, and its exit did the cleanup.
C9_Witness ==
    /\ last.op = "exit"
    /\ last.exc
    /\ ~last.prior
    /\ backend[last.h] = "stopped"

(* C10: after the cleanup of a handle provisioned by launching the binary, *)
(* the daemon launched at construction is no longer running.               *)
C10_ColabDaemonStopped ==
    \A h \in Handles :
        objs[h].built /\ objs[h].colab_redis.set /\ objs[h].cleaned_up =>
            backend[h] # "running"

(* C11: when the orchestration stop raises during a cleanup, the cleanup    *)
(* call does not raise; it goes on to close the environment file and to    *)
(* delete it (finding it gone already is ignored) and marks the handle     *)
(* completed, and no later cleanup call does anything more for the handle. *)
C11_StopErrorSwallowed ==
    \A h \in Handles :
        \A i \in At(h, "stop") :
            log[h][i].arg = "raise" =>
              /\ Len(log[h]) = i + 1
              /\ log[h][i + 1].ev = "unlink"
              /\ log[h][i + 1].arg \in {"ok", "FileNotFoundError"}
              /\ objs[h].env_file.closed
              /\ ~files[h].exists
              /\ objs[h].cleaned_up
              /\ (last.op \in Triggers \cup {"shutdown_all"} /\ last.h \in {0, h}
                    => ~last.raised)

\* A cleanup whose stop raised found the file gone already, and a later
\* trigger fired on the same handle.
C11_Witness ==
    /\ last.op \in Triggers
    /\ last.prior
    /\ \E i \in At(last.h, "stop") :
           /\ log[last.h][i].arg = "raise"
           /\ log[last.h][i + 1].arg = "FileNotFoundError"

(* C12: every handle whose construction returned is registered for the    *)
(* exit hooks and no other is; once the exit hooks have run, every such    *)
(* handle is marked completed, whether or not it is still in the registry, *)
(* and no handle has gone through the teardown more than once.             *)
C12_ExitCleansEveryHandle ==
    /\ phase = "run" =>
          {exitfuncs[i] : i \in 1..Len(exitfuncs)} = {h \in Handles : objs[h].built}
    /\ Len(exitfuncs) <= Cardinality({h \in Handles : objs[h].built})
    /\ phase = "finalize" => \A h \in Handles : objs[h].built => objs[h].cleaned_up
    /\ \A h \in Handles :
          /\ Cardinality(At(h, "cleanup")) <= 1
          /\ Cardinality(At(h, "stop")) <= 1
          /\ Cardinality(At(h, "unlink")) <= 1

\* The exit hooks have run over a handle shutdown_all had removed from the
\* registry and cleaned up, and over one still registered that nothing had
\* cleaned up before the exit.
C12_Witness ==
    /\ phase = "finalize"
    /\ \E h, k \in Handles :
           /\ h \in {r[2] : r \in retired}
           /\ h \notin RegisteredHandles(instances)
           /\ k \in RegisteredHandles(instances)
           /\ objs[h].built /\ objs[k].built
           /\ objs[h].cleaned_up /\ objs[k].cleaned_up
           /\ Cardinality(At(h, "cleanup")) = 1
           /\ Cardinality(At(k, "cleanup")) = 1

\* A backend was started with success among the calls l; for handle h.
ProvisionedIn(l) ==
    \E i \in 1..Len(l) : l[i] \in {Ev("start", "ok"), Ev("colab_start", "ok")}

Provisioned(h) == ProvisionedIn(log[h])

(* C13: a handle whose construction returned stays constructed, a handle   *)
(* marked completed stays marked, and no step starts a backend for it      *)
(* again or changes its backend; the handle a get returns has been         *)
(* constructed and provisioned.                                            *)
C13_StoppedIsTerminal ==
    [][/\ \A h \in Handles :
             /\ objs[h].built => objs'[h].built
             /\ objs[h].cleaned_up =>
                   /\ objs'[h].cleaned_up
                   /\ backend'[h] = backend[h]
                   /\ Pick(log'[h], "start") = Pick(log[h], "start")
                   /\ Pick(log'[h], "colab_start") = Pick(log[h], "colab_start")
       /\ last'.op = "get" /\ ~last'.raised =>
             /\ objs'[last'.h].built
             /\ ProvisionedIn(log'[last'.h])]_vars

\* A get was answered with the stored handle, which had been cleaned up and
\* whose container was stopped.
C13_Witness ==
    /\ last.op = "get" /\ last.hit
    /\ objs[last.h].cleaned_up
    /\ backend[last.h] = "stopped"
    /\ Provisioned(last.h)

\* The calls l made for a construction show a fatal provisioning error: no
\* call at all (the template was not found), a last orchestration start that
\* failed, or a failed step on the direct-binary path.
FatalIn(l) ==
    \/ l = <<>>
    \/ Pick(l, "start") # <<>> /\ Pick(l, "start")[Len(Pick(l, "start"))] # "ok"
    \/ Pick(l, "colab_start") # <<>> /\ Pick(l, "colab_start")[1] # "ok"

(* C14: a get that constructs raises exactly when provisioning met a fatal *)
(* error; such a get leaves the registry and the exit hooks as they were,  *)
(* with no entry for its configuration; no handle whose construction       *)
(* failed is ever in the registry or among the exit hooks, so a get never  *)
(* answers with one and a later get with that configuration constructs     *)
(* again.                                                                  *)
C14_FailedConstructionLeavesNoEntry ==
    [][/\ last'.op = "get" /\ ~last'.hit =>
             (last'.raised <=> FatalIn(log'[last'.h]))
       /\ last'.op = "get" /\ last'.raised =>
             /\ instances' = instances
             /\ exitfuncs' = exitfuncs
             /\ Lookup(instances', ConfigOf(last'.args)) = 0
             /\ ~objs'[last'.h].built
       /\ \A i \in 1..Len(instances') : objs'[instances'[i][2]].built
       /\ \A i \in 1..Len(exitfuncs') : objs'[exitfuncs'[i]].built
       /\ last'.op = "get" /\ last'.hit => objs'[last'.h].built]_vars

\* A get failed at a fatal provisioning error, and the next get with the same
\* configuration constructed and provisioned a handle.
C14_Witness ==
    /\ last.op = "get" /\ ~last.hit /\ ~last.raised
    /\ last.h = 2
    /\ ~objs[1].built
    /\ ConfigOf(last.args) = ConfigOf(BaseArgs)
    /\ objs[1].redis_container_name = objs[2].redis_container_name
    /\ Provisioned(2)
    /\ Lookup(instances, ConfigOf(last.args)) = 2

(* C15: a cleanup, explicit or by leaving a with-block, leaves the         *)
(* registry as it is; no step but shutdown_all takes an entry out of the   *)
(* registry; a get whose configuration is that of a registered handle that *)
(* is cleaned up gives that handle and constructs and starts nothing.      *)
C15_CleanupKeepsEntry ==
    [][/\ last'.op \in {"cleanup", "exit"} => instances' = instances
       /\ last'.op # "shutdown_all" =>
             /\ Len(instances') >= Len(instances)
             /\ SubSeq(instances', 1, Len(instances)) = instances
       /\ \A i \in 1..Len(instances) :
             /\ objs[instances[i][2]].cleaned_up
             /\ last'.op = "get"
             /\ ConfigOf(last'.args) = instances[i][1]
             => /\ last'.hit /\ ~last'.raised
                /\ last'.h = instances[i][2]
                /\ instances' = instances
                /\ objs' = objs /\ log' = log /\ backend' = backend
                /\ files' = files]_vars

\* A configuration was got, its handle was cleaned up, and a second get with
\* it, with no shutdown_all in between, was answered with the same handle.
C15_Witness ==
    /\ last.op = "get" /\ last.hit /\ ~last.first
    /\ objs[last.h].cleaned_up
    /\ <<last.args, last.h>> \in born
    /\ Len(log[last.h]) > 2

\* <<configuration, handle>> of every handle the registry holds or has held.
Created ==
    retired \cup {<<instances[i][1], instances[i][2]>> : i \in 1..Len(instances)}

\* The lifecycle state RUNNING: constructed and not cleaned up.
Running(h) == objs[h].built /\ ~objs[h].cleaned_up

(* C16: the registry holds at most one handle per configuration, and of    *)
(* the handles constructed for one configuration, earlier ones removed by  *)
(* shutdown_all included, at most one is constructed and not cleaned up.   *)
C16_OneRunningPerConfig ==
    /\ \A i, j \in 1..Len(instances) :
           instances[i][1] = instances[j][1] => i = j
    /\ \A p, q \in Created :
           p[1] = q[1] /\ Running(p[2]) /\ Running(q[2]) => p[2] = q[2]
    /\ \A h \in Handles : Running(h) => h \in {p[2] : p \in Created}

\* Two handles were constructed for one configuration: shutdown_all removed
\* the first, cleaned up, and the second is in the registry and not cleaned up.
C16_Witness ==
    \E p \in retired : \E i \in 1..Len(instances) :
        /\ instances[i][1] = p[1]
        /\ instances[i][2] # p[2]
        /\ Running(instances[i][2])
        /\ objs[p[2]].built /\ objs[p[2]].cleaned_up

\* The threads whose call of get has returned a handle.
Returned == {t \in Threads : threads[t].pc = "done" /\ ~threads[t].raised}

(* C17, as claimed: threads that call get at the same time with one        *)
(* configuration are all returned the same handle, and one backend is      *)
(* provisioned for them.                                                   *)
C17_ConcurrentGetProvisionsOnce ==
    /\ \A t, u \in Returned : threads[t].ret = threads[u].ret
    /\ Cardinality({h \in Handles : Provisioned(h)}) <= 1

(* C17, amended: the test and the store of get are not atomic.  A thread   *)
(* whose test finds an entry constructs nothing; every thread whose test   *)
(* finds none constructs and provisions a handle of its own; a store       *)
(* replaces the entry of the configuration, so the registry keeps one      *)
(* entry; and a call returns the handle the registry holds when it         *)
(* returns, which is a constructed and provisioned one.                    *)
C17_ConcurrentGetUnguarded ==
    [][/\ Len(instances') <= 1
       /\ \A t \in Threads :
             /\ threads'[t].h # 0 <=>
                   threads'[t].missed /\ threads'[t].pc \in {"store", "return", "done"}
             /\ \A u \in Threads :
                   t # u /\ threads'[t].h # 0 => threads'[t].h # threads'[u].h
             /\ threads'[t].pc = "done" /\ ~threads'[t].raised =>
                   /\ threads'[t].ret \in {threads'[u].h : u \in Threads} \ {0}
                   /\ objs'[threads'[t].ret].built
                   /\ ProvisionedIn(log'[threads'[t].ret])
             /\ threads[t].pc = "store" /\ threads'[t].pc = "return" =>
                   Lookup(instances', ConfigOf(threads[t].args)) = threads[t].h
             /\ threads[t].pc = "return" /\ threads'[t].pc = "done" =>
                   threads'[t].ret = Lookup(instances, ConfigOf(threads[t].args))]_vars

\* Two threads tested the registry before either stored: each provisioned a
\* backend, and they were returned different handles.
C17_Witness ==
    \E t, u \in Returned :
        /\ threads[t].missed /\ threads[u].missed
        /\ threads[t].ret # threads[u].ret
        /\ Provisioned(threads[t].h) /\ Provisioned(threads[u].h)

(* C18: a get with the instance name unset puts a generated name, one no  *)
(* handle has had, into the registry key; it finds no entry, constructs a  *)
(* new handle, and when the construction succeeds the backend is           *)
(* provisioned and the registry has one entry more, the new one.           *)
C18_UnnamedGetAlwaysConstructs ==
    [][ulids' # ulids =>
         /\ last'.op = "get"
         /\ last'.args[2] # None
         /\ last'.args[2] \notin {objs[h].redis_container_name : h \in Handles}
         /\ ConfigOf(last'.args)[2] = last'.args[2]
         /\ Lookup(instances, ConfigOf(last'.args)) = 0
         /\ ~last'.hit
         /\ Len(objs') = Len(objs) + 1
         /\ last'.h = Len(objs')
         /\ objs'[last'.h].redis_container_name = last'.args[2]
         /\ IF last'.raised THEN instances' = instances
            ELSE /\ instances' = Append(instances, <<ConfigOf(last'.args), last'.h>>)
                 /\ ProvisionedIn(log'[last'.h])]_vars

\* Two gets with the instance name unset and all other arguments equal: the
\* registry holds two entries, whose keys differ in the name only.
C18_Witness ==
    /\ last.op = "get" /\ ~last.raised /\ ~last.hit
    /\ ulids = 2
    /\ Len(instances) = 2
    /\ instances[1][1][2] # instances[2][1][2]
    /\ [instances[1][1] EXCEPT ![2] = None] = [instances[2][1] EXCEPT ![2] = None]
    /\ instances[1][2] # instances[2][2]
    /\ Provisioned(1) /\ Provisioned(2)

\* The handles whose construction raised after the environment file was made.
FailedWithFile == {h \in Handles : ~objs[h].built /\ objs[h].env_file.set}

(* C19: a handle whose construction failed after its environment file was *)
(* created has a failed last orchestration start, no client and no exit    *)
(* hook; once its destructor has run, the cleanup has gone through to its  *)
(* end, which it reaches only when nothing was raised, the file is closed  *)
(* and is no longer on disk, and before that nothing has removed the file. *)
C19_FailedHandleFileRemoved ==
    \A h \in FailedWithFile :
        /\ Starts(h) # <<>> /\ Starts(h)[Len(Starts(h))] # "ok"
        /\ ~objs[h].client.set
        /\ h \notin {exitfuncs[i] : i \in 1..Len(exitfuncs)}
        /\ h \notin RegisteredHandles(instances)
        /\ h \in dead =>
              /\ objs[h].cleaned_up
              /\ objs[h].env_file.closed
              /\ ~files[h].exists
              /\ Cardinality(At(h, "cleanup")) = 1
              /\ Cardinality(At(h, "unlink")) = 1
        /\ h \notin dead =>
              /\ files[h].exists
              /\ ~objs[h].cleaned_up
              /\ At(h, "cleanup") = {}

\* The fallback retry raised, the caller dropped the failed object while the
\* program was running, and its destructor deleted the file.
C19_Witness ==
    \E h \in FailedWithFile :
        /\ h \in dead
        /\ phase = "run"
        /\ Len(Starts(h)) = 2
        /\ files[h].removed_by = "cleanup"
        /\ objs[h].cleaned_up

====
